---- MODULE Spec2Model ----
(***************************************************************************)
(* serde-pod: a serde serializer (src/src/ser.rs) and deserializer         *)
(* (src/src/de.rs) that write and read values as plain bytes, without any  *)
(* framing.  The model is a state machine of one to_writer call, one       *)
(* from_bytes call, or a to_vec call whose output is handed to from_bytes. *)
(*                                                                         *)
(* A byte is an integer 0..255.  A shape is [k, sub]: the serde data model *)
(* kind and the shapes it is built from.  A value is [k, n, sub]: n holds  *)
(* the digits of a number (16-bit limbs, most significant first; one limb  *)
(* for the 8- and 16-bit types), the scalar of a char, the scalars of a    *)
(* string or the bytes of a byte buffer; sub holds the parts.              *)
(***************************************************************************)
EXTENDS Integers, Sequences, FiniteSets, TLC

VARIABLES
  bo,       \* type parameter BO: "BE" or "LE"
  ty,       \* type parameter T of from_bytes / shape of the value of to_vec
  value,    \* argument of to_vec (NoValue when only from_bytes is called)
  pc,       \* where the calling code is
  writer,   \* what Serializer::writer has taken
  sink,     \* what Serializer::writer can still take
  storage,  \* argument of from_bytes
  reader,   \* Deserializer::reader, the not yet consumed part of storage
  stack,    \* the call stack of the traversal, innermost call last
  ret       \* what the call returned

vars == <<bo, ty, value, pc, writer, sink, storage, reader, stack, ret>>

(***************************************************************************)
(* Bounds of the model.                                                    *)
(***************************************************************************)
\* longest raw byte input handed to from_bytes
MaxLen == 5
\* longest raw byte input handed to from_bytes::<_, char>
MaxCharLen == 5
\* most elements of a sequence or entries of a map handed to to_vec
MaxSeq == 2
\* most elements an unknown-length sequence is allowed to collect
MaxElems == 6
\* longest byte slice handed to to_writer as the writer
MaxRoom == 3

(***************************************************************************)
(* Shapes and values.                                                      *)
(***************************************************************************)
Sh(k, sub) == [k |-> k, sub |-> sub]
Prim(k) == Sh(k, <<>>)
Val(k, n, sub) == [k |-> k, n |-> n, sub |-> sub]
NoValue == Val("no value", <<>>, <<>>)

IntKinds == {"i8", "u8", "i16", "u16", "i32", "u32", "i64", "u64", "i128", "u128"}
SignedKinds == {"i8", "i16", "i32", "i64", "i128"}
\* shapes serialized and deserialized as a fixed number of parts
TupleKinds == {"tuple", "tuple_struct", "struct"}
\* enum values: only ever serialized
VariantKinds == {"unit_variant", "newtype_variant", "tuple_variant", "struct_variant"}
\* shapes whose Deserialize asks for a method generated by unsupported!
UnsupportedKinds == {"any", "map", "bool", "option", "identifier", "ignored_any"}

\* size_of the integer type, in bytes
Width(k) ==
  CASE k \in {"i8", "u8"} -> 1
    [] k \in {"i16", "u16"} -> 2
    [] k \in {"i32", "u32"} -> 4
    [] k \in {"i64", "u64"} -> 8
    [] k \in {"i128", "u128"} -> 16

Reverse(s) == [i \in 1..Len(s) |-> s[Len(s) + 1 - i]]
Drop(s, n) == SubSeq(s, n + 1, Len(s))
Take(s, n) == SubSeq(s, 1, n)
Pop(s) == SubSeq(s, 1, Len(s) - 1)
Top(s) == s[Len(s)]

RECURSIVE Flatten(_)
Flatten(ss) == IF ss = <<>> THEN <<>> ELSE Head(ss) \o Flatten(Tail(ss))

(***************************************************************************)
(* byteorder: WriteBytesExt::write_uN::<BO> and ReadBytesExt::read_uN::<BO>*)
(***************************************************************************)
\* the big-endian bytes of one limb (two's complement)
LimbBytes(k, l) ==
  IF Width(k) = 1 THEN << l % 256 >>
  ELSE << (l % 65536) \div 256, l % 256 >>

BigEndianBytes(k, n) == Flatten([i \in 1..Len(n) |-> LimbBytes(k, n[i])])

\* write_num that writes in the order of a little-endian host whatever the byte order
write_num_native_order(order, k, n) == Reverse(BigEndianBytes(k, n))

write_num(order, k, n) ==
  IF order = "BE" THEN BigEndianBytes(k, n) ELSE Reverse(BigEndianBytes(k, n))

\* LimbOf that takes no sign from the top bit
LimbOf_zero_extended(k, b, i) ==
  IF Width(k) = 1 THEN b[1] ELSE (b[2 * i - 1] * 256) + b[2 * i]

\* limb i of the number that the big-endian bytes b hold
LimbOf(k, b, i) ==
  LET u == IF Width(k) = 1 THEN b[1] ELSE (b[2 * i - 1] * 256) + b[2 * i]
      top == IF Width(k) = 1 THEN 128 ELSE 32768
  IN IF k \in SignedKinds /\ i = 1 /\ u >= top THEN u - 2 * top ELSE u

\* read_num that takes the bytes as big-endian whatever the byte order
read_num_ignoring_order(order, k, b) ==
  [i \in 1..(IF Width(k) = 1 THEN 1 ELSE Width(k) \div 2) |-> LimbOf(k, b, i)]

read_num(order, k, b) ==
  LET be == IF order = "BE" THEN b ELSE Reverse(b)
      limbs == IF Width(k) = 1 THEN 1 ELSE Width(k) \div 2
  IN [i \in 1..limbs |-> LimbOf(k, be, i)]

(***************************************************************************)
(* UTF-8: char::encode_utf8, str::as_bytes, str::from_utf8                 *)
(***************************************************************************)
encode_utf8(c) ==
  IF c < 128 THEN << c >>
  ELSE IF c < 2048 THEN << 192 + (c \div 64), 128 + (c % 64) >>
  ELSE IF c < 65536
    THEN << 224 + (c \div 4096), 128 + ((c \div 64) % 64), 128 + (c % 64) >>
  ELSE << 240 + (c \div 262144), 128 + ((c \div 4096) % 64),
          128 + ((c \div 64) % 64), 128 + (c % 64) >>

\* as_bytes of a string kept in a one-byte encoding: '?' for what has no byte
as_bytes_of_one_byte_chars(chars) ==
  [i \in 1..Len(chars) |-> IF chars[i] < 256 THEN chars[i] ELSE 63]

as_bytes(chars) == Flatten([i \in 1..Len(chars) |-> encode_utf8(chars[i])])

IsCont(b) == b >= 128 /\ b <= 191

\* length of the well-formed UTF-8 sequence b starts with, 0 when there is none
Utf8SeqLen(b) ==
  LET n == Len(b)
      b1 == b[1]
  IN IF n = 0 THEN 0
     ELSE IF b1 < 128 THEN 1
     ELSE IF b1 >= 194 /\ b1 <= 223
       THEN IF n >= 2 /\ IsCont(b[2]) THEN 2 ELSE 0
     ELSE IF b1 >= 224 /\ b1 <= 239
       THEN IF /\ n >= 3
               /\ IsCont(b[2])
               /\ IsCont(b[3])
               /\ (b1 = 224 => b[2] >= 160)
               /\ (b1 = 237 => b[2] <= 159)
            THEN 3 ELSE 0
     ELSE IF b1 >= 240 /\ b1 <= 244
       THEN IF /\ n >= 4
               /\ IsCont(b[2])
               /\ IsCont(b[3])
               /\ IsCont(b[4])
               /\ (b1 = 240 => b[2] >= 144)
               /\ (b1 = 244 => b[2] <= 143)
            THEN 4 ELSE 0
     ELSE 0

\* the scalar that the well-formed sequence b of length w encodes
Scalar(b, w) ==
  CASE w = 1 -> b[1]
    [] w = 2 -> ((b[1] - 192) * 64) + (b[2] - 128)
    [] w = 3 -> ((b[1] - 224) * 4096) + ((b[2] - 128) * 64) + (b[3] - 128)
    [] w = 4 -> ((b[1] - 240) * 262144) + ((b[2] - 128) * 4096)
                + ((b[3] - 128) * 64) + (b[4] - 128)

\* from_utf8 that replaces what is malformed instead of failing
from_utf8_lossy(b) ==
  [ok |-> TRUE, chars |-> IF Utf8SeqLen(b) = 0 THEN << 65533 >> ELSE << Scalar(b, Utf8SeqLen(b)) >>]

RECURSIVE from_utf8(_)
from_utf8(b) ==
  IF b = <<>> THEN [ok |-> TRUE, chars |-> <<>>]
  ELSE LET w == Utf8SeqLen(b)
       IN IF w = 0 THEN [ok |-> FALSE, chars |-> <<>>]
          ELSE LET rest == from_utf8(Drop(b, w))
               IN IF rest.ok
                    THEN [ok |-> TRUE, chars |-> << Scalar(b, w) >> \o rest.chars]
                    ELSE rest

\* the table with the row of 0xE0 filled with 2 instead of 3
UTF8_CHAR_WIDTH_short_row(b) ==
  IF b < 128 THEN 1
  ELSE IF b < 194 THEN 0
  ELSE IF b < 240 THEN 2
  ELSE IF b < 245 THEN 4
  ELSE 0

\* de.rs, read_char: the table copied from core::str::utf8_char_width
UTF8_CHAR_WIDTH(b) ==
  IF b < 128 THEN 1
  ELSE IF b < 194 THEN 0
  ELSE IF b < 224 THEN 2
  ELSE IF b < 240 THEN 3
  ELSE IF b < 245 THEN 4
  ELSE 0

(***************************************************************************)
(* The values and inputs the model draws from.                             *)
(***************************************************************************)
U8 == Prim("u8")
U16 == Prim("u16")
U32 == Prim("u32")
Char == Prim("char")
String == Prim("string")
Unit == Prim("unit")

\* 0x1234, 0x5678, 0x90AB, 0xCDEF: the digits of the numbers of the tests
TestLimbs == << 4660, 22136, 37035, 52719 >>

IntSamples(k) ==
  LET limbs == IF Width(k) = 1 THEN 1 ELSE Width(k) \div 2
  IN IF Width(k) = 1
       THEN { << 18 >>, IF k \in SignedKinds THEN << -85 >> ELSE << 171 >> }
       ELSE { [i \in 1..limbs |-> TestLimbs[((i - 1) % 4) + 1]],
              [i \in 1..limbs |->
                 IF i = 1 THEN (IF k \in SignedKinds THEN -2 ELSE 43981) ELSE 239] }

\* 'A', DEL, U+0080, 'т', U+07FF, U+0800, '€', U+D7FF, U+E000, U+FFFF, U+10000,
\* U+1F600, U+10FFFF
CharSamples ==
  { 65, 127, 128, 1090, 2047, 2048, 8364, 55295, 57344, 65535, 65536, 128512, 1114111 }

StrSamples == { <<>>, << 65 >>, << 1090, 65 >>, << 128512 >> }

BytesSamples == { <<>>, << 18 >>, << 171, 18 >> }

\* the variant_index of the variants of an enum of two variants of one payload
VariantIndices == { 0, 1 }

SeqsUpTo(S, n) == UNION { [1..m -> S] : m \in 0..n }

RECURSIVE ValuesOf(_)
RECURSIVE Products(_)
\* every sequence of values, one of each of the shapes subs
Products(subs) ==
  IF subs = <<>> THEN { <<>> }
  ELSE { << v >> \o rest : v \in ValuesOf(Head(subs)), rest \in Products(Tail(subs)) }

ValuesOf(t) ==
  CASE t.k \in IntKinds -> { Val(t.k, n, <<>>) : n \in IntSamples(t.k) }
    [] t.k = "bool" -> { Val("bool", << b >>, <<>>) : b \in BOOLEAN }
    [] t.k = "char" -> { Val("char", << c >>, <<>>) : c \in CharSamples }
    [] t.k \in {"string", "str"} -> { Val(t.k, cs, <<>>) : cs \in StrSamples }
    [] t.k = "byte_buf" -> { Val("byte_buf", b, <<>>) : b \in BytesSamples }
    [] t.k \in {"unit", "unit_struct"} -> { Val(t.k, <<>>, <<>>) }
    [] t.k = "unit_variant" -> { Val(t.k, << i >>, <<>>) : i \in VariantIndices }
    [] t.k = "newtype" -> { Val(t.k, <<>>, << v >>) : v \in ValuesOf(t.sub[1]) }
    [] t.k = "newtype_variant" ->
         { Val(t.k, << i >>, << v >>) : i \in VariantIndices, v \in ValuesOf(t.sub[1]) }
    [] t.k = "option" ->
         { Val("none", <<>>, <<>>) }
           \cup { Val("some", <<>>, << v >>) : v \in ValuesOf(t.sub[1]) }
    [] t.k = "seq" ->
         { Val("seq", <<>>, vs) : vs \in SeqsUpTo(ValuesOf(t.sub[1]), MaxSeq) }
    [] t.k \in TupleKinds -> { Val(t.k, <<>>, vs) : vs \in Products(t.sub) }
    [] t.k \in {"tuple_variant", "struct_variant"} ->
         { Val(t.k, << i >>, vs) : i \in VariantIndices, vs \in Products(t.sub) }
    [] t.k = "map" ->
         { Val("map", <<>>, Flatten(es)) : es \in SeqsUpTo(Products(t.sub), MaxSeq) }
    [] OTHER -> {}

\* the shapes handed to to_vec, and then to from_bytes
SerShapes ==
  { Prim(k) : k \in IntKinds }
    \cup { Prim("bool"), Char, String, Prim("str"), Prim("byte_buf"), Unit,
           Prim("unit_struct"), Prim("unit_variant") }
    \cup { Sh("newtype", << U32 >>),
           Sh("newtype_variant", << U32 >>),
           Sh("option", << U16 >>),
           Sh("option", << Sh("newtype", << String >>) >>),
           Sh("seq", << U16 >>),
           Sh("seq", << Unit >>),
           Sh("seq", << String >>),
           Sh("seq", << Sh("seq", << U8 >>) >>),
           Sh("seq", << Sh("tuple", << U8, U16 >>) >>),
           Sh("tuple", <<>>),
           Sh("tuple", << U16, U16, U16 >>),
           Sh("tuple", << Prim("bool"), U16 >>),
           Sh("tuple", << Char, U8 >>),
           Sh("tuple", << String, U8 >>),
           Sh("tuple", << U8, String >>),
           Sh("tuple", << U16, Sh("seq", << U16 >>) >>),
           Sh("tuple", << Sh("seq", << U8 >>), U8 >>),
           Sh("tuple_struct", << U32, U16 >>),
           Sh("struct", << U32, U16 >>),
           Sh("struct", << Sh("newtype", << Prim("i16") >>), Sh("tuple", << Char, U8 >>) >>),
           Sh("tuple_variant", << U32, U16 >>),
           Sh("struct_variant", << U32, U16 >>),
           Sh("map", << U8, U16 >>) }

\* the shapes asked of from_bytes on raw bytes; "collect" is a type that calls
\* deserialize_tuple(len, visitor) with a visitor that asks for elements until
\* it gets None, len being the number of shapes in sub
DeShapes ==
  { Prim(k) : k \in {"u8", "i8", "u16", "i16", "u32", "i32"} }
    \cup { Prim(k) : k \in UnsupportedKinds }
    \cup { Prim("enum"), String, Prim("str"), Prim("byte_buf"), Unit, Prim("unit_struct") }
    \cup { Sh("newtype", << U16 >>),
           Sh("seq", << U8 >>),
           Sh("seq", << U16 >>),
           Sh("seq", << Unit >>),
           Sh("seq", << String >>),
           Sh("seq", << Sh("seq", << U8 >>) >>),
           Sh("seq", << Sh("tuple", << U8, U16 >>) >>),
           Sh("seq", << Sh("option", << U8 >>) >>),
           Sh("tuple", <<>>),
           Sh("tuple", << U16, U16 >>),
           Sh("tuple", << U16, U8 >>),
           Sh("tuple", << String, U8 >>),
           Sh("tuple", << U8, String, Char >>),
           Sh("struct", << Prim("byte_buf"), U16 >>),
           Sh("tuple", << U8, Prim("bool"), U8 >>),
           Sh("tuple", << U8, Sh("tuple", << U8, U8 >>), U8 >>),
           Sh("collect", << U8, U8 >>),
           Sh("tuple", << Sh("collect", << U8 >>), Sh("collect", << U8, U8 >>) >>),
           Sh("tuple_struct", << U16, U8 >>),
           Sh("struct", << U16, U8 >>),
           Sh("struct", << Sh("newtype", << U8 >>), Sh("seq", << U16 >>) >>) }

\* raw bytes: 0x12 is a character of its own, 0xAB is no start of a character
RawBytes == { 18, 171 }
RawInputs == SeqsUpTo(RawBytes, MaxLen)

\* raw bytes for a character: every class of first byte (ASCII; continuation;
\* 0xC0, 0xF5, 0xFF that start nothing; starts of 2, 3 and 4 bytes, with the
\* starts E0, ED, F0, F4 that narrow the second byte), then second bytes on both
\* sides of each narrowed range, then a continuation byte or none
FirstBytes == { 65, 128, 191, 192, 193, 209, 224, 225, 237, 240, 244, 245, 255 }
SecondBytes == { 65, 128, 144, 160, 191 }
LaterBytes == { 65, 130 }
CharInputs ==
  { <<>> }
    \cup { << a >> : a \in FirstBytes }
    \cup { << a, b >> \o t : a \in FirstBytes, b \in SecondBytes,
                            t \in SeqsUpTo(LaterBytes, MaxCharLen - 2) }

(***************************************************************************)
(* Results and stack frames.                                               *)
(***************************************************************************)
None == [st |-> "none", val |-> NoValue, err |-> "", msg |-> ""]
Ok(v) == [st |-> "ok", val |-> v, err |-> "", msg |-> ""]
Err(kind, msg) == [st |-> "err", val |-> NoValue, err |-> kind, msg |-> msg]
Panic(msg) == [st |-> "panic", val |-> NoValue, err |-> "", msg |-> msg]

Frame(f, t, v, count, acc) == [f |-> f, ty |-> t, v |-> v, count |-> count, acc |-> acc]
Call(t) == Frame("deserialize", t, NoValue, 0, <<>>)

(***************************************************************************)
(* std::io::Read for the reader.  A read_exact that finds too few bytes    *)
(* fails; whether it has consumed the bytes that were there depends on the *)
(* reader and on the version of std, so both outcomes are possible.        *)
(***************************************************************************)
\* read_exact that takes what is there and leaves the rest of the buffer zero
read_exact_zero_filled(rd, n) ==
  IF Len(rd) >= n
    THEN { [ok |-> TRUE, buf |-> Take(rd, n), rest |-> Drop(rd, n)] }
    ELSE { [ok |-> TRUE, buf |-> rd \o [i \in 1..(n - Len(rd)) |-> 0], rest |-> <<>>] }

read_exact(rd, n) ==
  IF Len(rd) >= n
    THEN { [ok |-> TRUE, buf |-> Take(rd, n), rest |-> Drop(rd, n)] }
    ELSE { [ok |-> FALSE, buf |-> <<>>, rest |-> rd],
           [ok |-> FALSE, buf |-> <<>>, rest |-> <<>>] }

IoError == Err("Io", "failed to fill whole buffer")

\* read_char that puts the bytes of a character it does not take back into the reader
read_char_unread_on_error(rd) ==
  IF rd = <<>> THEN { [res |-> IoError, rest |-> rd] }
  ELSE LET width == UTF8_CHAR_WIDTH(rd[1])
       IN IF width = 1
            THEN { [res |-> Ok(Val("char", << rd[1] >>, <<>>)), rest |-> Drop(rd, 1)] }
          ELSE IF width = 0
            THEN { [res |-> Panic("slice index starts at 1 but ends at 0"), rest |-> rd] }
          ELSE IF Len(rd) < width THEN { [res |-> IoError, rest |-> rd] }
          ELSE IF Utf8SeqLen(Take(rd, width)) # width
            THEN { [res |-> Err("Encoding", "invalid utf-8 sequence"), rest |-> rd] }
          ELSE { [res |-> Ok(Val("char", << Scalar(rd, width) >>, <<>>)),
                  rest |-> Drop(rd, width)] }

\* Deserializer::read_char: the possible outcomes [res, rest] on the reader rd
read_char(rd) ==
  UNION {
    IF ~first.ok THEN { [res |-> IoError, rest |-> first.rest] }
    ELSE LET width == UTF8_CHAR_WIDTH(first.buf[1])
         IN IF width = 1
              THEN { [res |-> Ok(Val("char", first.buf, <<>>)), rest |-> first.rest] }
            ELSE IF width = 0
              \* &mut buf[1..0]
              THEN { [res |-> Panic("slice index starts at 1 but ends at 0"),
                      rest |-> first.rest] }
            ELSE { IF ~more.ok THEN [res |-> IoError, rest |-> more.rest]
                   ELSE LET s == from_utf8(first.buf \o more.buf)
                        IN IF ~s.ok
                             THEN [res |-> Err("Encoding", "invalid utf-8 sequence"),
                                   rest |-> more.rest]
                           ELSE IF s.chars = <<>>
                             THEN [res |-> Err("Unknown", "UTF-8 bytes decoded as empty string"),
                                   rest |-> more.rest]
                           ELSE [res |-> Ok(Val("char", << s.chars[1] >>, <<>>)),
                                 rest |-> more.rest]
                   : more \in read_exact(first.rest, width - 1) }
    : first \in read_exact(rd, 1) }

\* the text of the error of a method generated by unsupported! (the text in
\* the code has the name of the method between backquotes)
UnsupportedMsg(k) ==
  CASE k = "any" -> "deserialize_any is not supported"
    [] k = "map" -> "deserialize_map is not supported"
    [] k = "bool" -> "deserialize_bool is not supported"
    [] k = "option" -> "deserialize_option is not supported"
    [] k = "identifier" -> "deserialize_identifier is not supported"
    [] k = "ignored_any" -> "deserialize_ignored_any is not supported"

(***************************************************************************)
(* A call returns r to the frame on top of stk: the visitor of a tuple or  *)
(* of a sequence keeps the value and goes on, or returns itself when it    *)
(* has every part; an error or a panic goes up through every caller.       *)
(***************************************************************************)
RECURSIVE Return(_, _)
Return(stk, r) ==
  IF stk = <<>> THEN [stack |-> <<>>, ret |-> r]
  ELSE LET top == Top(stk)
           acc == Append(top.acc, r.val)
       IN IF r.st # "ok" THEN Return(Pop(stk), r)
          ELSE CASE top.f = "Tuple" ->
                      IF Len(acc) = Len(top.ty.sub) /\ top.ty.k # "collect"
                        THEN Return(Pop(stk), Ok(Val(top.ty.k, <<>>, acc)))
                        ELSE [stack |-> Append(Pop(stk), [top EXCEPT !.acc = acc]),
                              ret |-> None]
                 [] top.f = "Seq" ->
                      [stack |-> Append(Pop(stk), [top EXCEPT !.acc = acc]), ret |-> None]
                 [] top.f = "Newtype" ->
                      Return(Pop(stk), Ok(Val("newtype", <<>>, << r.val >>)))

\* the method on top of the stack returns r and leaves the reader at rd
Returns(r, rd) ==
  LET after == Return(Pop(stack), r)
  IN /\ stack' = after.stack
     /\ ret' = after.ret
     /\ reader' = rd
     /\ pc' = IF after.stack = <<>> THEN "done" ELSE pc
     /\ UNCHANGED << bo, sink, ty, value, writer, storage >>

\* the method on top of the stack hands over to the frames fs
Calls(fs) ==
  /\ stack' = Pop(stack) \o fs
  /\ UNCHANGED << bo, sink, ty, value, pc, writer, storage, reader, ret >>

Deserializing(kinds) ==
  /\ pc = "from_bytes"
  /\ stack # <<>>
  /\ Top(stack).f = "deserialize"
  /\ Top(stack).ty.k \in kinds

(***************************************************************************)
(* de.rs: from_bytes and the methods of de::Deserializer                   *)
(***************************************************************************)
from_bytes ==
  /\ pc \in {"call from_bytes", "to_vec done"}
  /\ storage' = IF pc = "to_vec done" THEN writer ELSE storage
  /\ reader' = storage'
  /\ stack' = << Call(ty) >>
  /\ pc' = "from_bytes"
  /\ UNCHANGED << bo, sink, ty, value, writer, ret >>

\* ReadNumber that reads every number through a read of at least 16 bits
ReadNumber_at_least_16_bits(k) ==
  \E got \in read_exact(reader, IF Width(k) = 1 THEN 2 ELSE Width(k)) :
    Returns(IF got.ok THEN Ok(Val(k, read_num(bo, k, Take(got.buf, Width(k))), <<>>))
            ELSE IoError,
            got.rest)

ReadNumber(k) ==
  \E got \in read_exact(reader, Width(k)) :
    Returns(IF got.ok THEN Ok(Val(k, read_num(bo, k, got.buf), <<>>)) ELSE IoError,
            got.rest)

deserialize_i8 == Deserializing({"i8"}) /\ ReadNumber("i8")

deserialize_u8 == Deserializing({"u8"}) /\ ReadNumber("u8")

impl_numbers ==
  /\ Deserializing(IntKinds \ {"i8", "u8"})
  /\ ReadNumber(Top(stack).ty.k)

deserialize_char ==
  /\ Deserializing({"char"})
  /\ \E got \in read_char(reader) : Returns(got.res, got.rest)

\* deserialize_string that takes one character and leaves the bytes after it
deserialize_string_of_one_char ==
  /\ Deserializing({"string", "str"})
  /\ LET w == Utf8SeqLen(reader)
     IN Returns(IF w = 0 THEN Err("Encoding", "invalid utf-8 sequence")
                ELSE IF Top(stack).ty.k = "str"
                  THEN Err("Unknown", "invalid type: string, expected a borrowed string")
                ELSE Ok(Val("string", << Scalar(reader, w) >>, <<>>)),
                Drop(reader, w))

\* deserialize_string that hands the visitor of &str a slice it takes
deserialize_string_borrowed ==
  /\ Deserializing({"string", "str"})
  /\ LET s == from_utf8(reader)
     IN Returns(IF ~s.ok THEN Err("Encoding", "invalid utf-8 sequence")
                ELSE Ok(Val(Top(stack).ty.k, s.chars, <<>>)),
                <<>>)

\* deserialize_str hands over to deserialize_string; the visitor of &str takes
\* no owned string
deserialize_string ==
  /\ Deserializing({"string", "str"})
  /\ LET s == from_utf8(reader)
     IN Returns(IF ~s.ok THEN Err("Encoding", "invalid utf-8 sequence")
                ELSE IF Top(stack).ty.k = "str"
                  THEN Err("Unknown", "invalid type: string, expected a borrowed string")
                ELSE Ok(Val("string", s.chars, <<>>)),
                <<>>)

\* deserialize_byte_buf that takes the bytes only if they are UTF-8
deserialize_byte_buf_validated ==
  /\ Deserializing({"byte_buf"})
  /\ Returns(IF from_utf8(reader).ok THEN Ok(Val("byte_buf", reader, <<>>))
             ELSE Err("Encoding", "invalid utf-8 sequence"),
             <<>>)

\* deserialize_bytes hands over to deserialize_byte_buf
deserialize_byte_buf ==
  /\ Deserializing({"byte_buf"})
  /\ Returns(Ok(Val("byte_buf", reader, <<>>)), <<>>)

\* deserialize_unit that reads one byte for the unit
deserialize_unit_of_one_byte ==
  /\ Deserializing({"unit"})
  /\ \E got \in read_exact(reader, 1) :
       Returns(IF got.ok THEN Ok(Val("unit", <<>>, <<>>)) ELSE IoError, got.rest)

deserialize_unit ==
  /\ Deserializing({"unit"})
  /\ Returns(Ok(Val("unit", <<>>, <<>>)), reader)

deserialize_unit_struct ==
  /\ Deserializing({"unit_struct"})
  /\ Returns(Ok(Val("unit_struct", <<>>, <<>>)), reader)

deserialize_newtype_struct ==
  /\ Deserializing({"newtype"})
  /\ Calls(<< Frame("Newtype", Top(stack).ty, NoValue, 0, <<>>),
              Call(Top(stack).ty.sub[1]) >>)

deserialize_seq ==
  /\ Deserializing({"seq"})
  /\ Calls(<< Frame("Seq", Top(stack).ty, NoValue, 0, <<>>) >>)

\* deserialize_tuple that hands the visitor a Tuple of one element less
deserialize_tuple_one_short ==
  /\ Deserializing(TupleKinds)
  /\ LET t == Top(stack).ty
     IN IF t.sub = <<>>
          THEN Returns(Ok(Val(t.k, <<>>, <<>>)), reader)
          ELSE Calls(<< Frame("Tuple", t, NoValue, Len(t.sub) - 1, <<>>) >>)

\* deserialize_tuple_struct and deserialize_struct hand over to deserialize_tuple;
\* the visitor of an empty tuple returns without asking for an element
deserialize_tuple ==
  /\ Deserializing(TupleKinds \cup {"collect"})
  /\ LET t == Top(stack).ty
     IN IF t.sub = <<>>
          THEN Returns(Ok(Val(t.k, <<>>, <<>>)), reader)
          ELSE Calls(<< Frame("Tuple", t, NoValue, Len(t.sub), <<>>) >>)

\* an unsupported method that looks at a byte before it fails
unsupported_after_a_read ==
  /\ Deserializing(UnsupportedKinds)
  /\ Returns(Err("Unsupported", UnsupportedMsg(Top(stack).ty.k)), Drop(reader, 1))

unsupported ==
  /\ Deserializing(UnsupportedKinds)
  /\ Returns(Err("Unsupported", UnsupportedMsg(Top(stack).ty.k)), reader)

deserialize_enum ==
  /\ Deserializing(VariantKinds \cup {"enum"})
  /\ Returns(Err("Unsupported", "deserialize_enum is not supported"), reader)

\* next_element_seed that counts every element twice
Tuple_next_element_seed_counting_twice ==
  /\ pc = "from_bytes"
  /\ stack # <<>>
  /\ Top(stack).f = "Tuple"
  /\ LET top == Top(stack)
     IN IF top.count > 0
          THEN /\ stack' = Pop(stack) \o << [top EXCEPT !.count = top.count - 2],
                                            Call(top.ty.sub[Len(top.acc) + 1]) >>
               /\ UNCHANGED << bo, sink, ty, value, pc, writer, storage, reader, ret >>
          ELSE IF top.ty.k = "collect"
            THEN Returns(Ok(Val("collect", <<>>, top.acc)), reader)
          ELSE Returns(Err("Unknown", "invalid length"), reader)

\* SeqAccess for Tuple: the visitor asks for the element after those it has
Tuple_next_element_seed ==
  /\ pc = "from_bytes"
  /\ stack # <<>>
  /\ Top(stack).f = "Tuple"
  /\ LET top == Top(stack)
     IN IF top.count > 0
          THEN /\ stack' = Pop(stack) \o << [top EXCEPT !.count = top.count - 1],
                                            Call(top.ty.sub[Len(top.acc) + 1]) >>
               /\ UNCHANGED << bo, sink, ty, value, pc, writer, storage, reader, ret >>
          \* Ok(None): the visitor that collects returns what it has, the visitor
          \* of a tuple, array or struct misses an element
          ELSE IF top.ty.k = "collect"
            THEN Returns(Ok(Val("collect", <<>>, top.acc)), reader)
          ELSE Returns(Err("Unknown", "invalid length"), reader)

\* next_element_seed that ends the sequence one byte before the end
Seq_next_element_seed_one_byte_early ==
  /\ pc = "from_bytes"
  /\ stack # <<>>
  /\ Top(stack).f = "Seq"
  /\ LET top == Top(stack)
     IN IF Len(reader) <= 1
          THEN Returns(Ok(Val("seq", <<>>, top.acc)), reader)
          ELSE /\ Len(top.acc) < MaxElems
               /\ stack' = Append(stack, Call(top.ty.sub[1]))
               /\ UNCHANGED << bo, sink, ty, value, pc, writer, storage, reader, ret >>

\* next_element_seed that ends the sequence when the element fails for lack of bytes
Seq_next_element_seed_drops_partial ==
  /\ pc = "from_bytes"
  /\ stack # <<>>
  /\ Top(stack).f = "Seq"
  /\ LET top == Top(stack)
     IN IF reader = <<>> \/ (top.ty.sub[1].k \in IntKinds /\ Len(reader) < Width(top.ty.sub[1].k))
          THEN Returns(Ok(Val("seq", <<>>, top.acc)), <<>>)
          ELSE /\ Len(top.acc) < MaxElems
               /\ stack' = Append(stack, Call(top.ty.sub[1]))
               /\ UNCHANGED << bo, sink, ty, value, pc, writer, storage, reader, ret >>

\* next_element_seed that ends the sequence after its first element
Seq_next_element_seed_of_one_element ==
  /\ pc = "from_bytes"
  /\ stack # <<>>
  /\ Top(stack).f = "Seq"
  /\ LET top == Top(stack)
     IN IF reader = <<>> \/ Len(top.acc) >= 1
          THEN Returns(Ok(Val("seq", <<>>, top.acc)), reader)
          ELSE /\ stack' = Append(stack, Call(top.ty.sub[1]))
               /\ UNCHANGED << bo, sink, ty, value, pc, writer, storage, reader, ret >>

\* SeqAccess for &mut Deserializer: the visitor of Vec asks until it gets None
Seq_next_element_seed ==
  /\ pc = "from_bytes"
  /\ stack # <<>>
  /\ Top(stack).f = "Seq"
  /\ LET top == Top(stack)
     IN IF reader = <<>>
          THEN Returns(Ok(Val("seq", <<>>, top.acc)), reader)
          ELSE /\ Len(top.acc) < MaxElems
               /\ stack' = Append(stack, Call(top.ty.sub[1]))
               /\ UNCHANGED << bo, sink, ty, value, pc, writer, storage, reader, ret >>

(***************************************************************************)
(* ser.rs: to_vec and the methods of ser::Serializer                       *)
(***************************************************************************)
Ser(v) == Frame("serialize", Prim(v.k), v, 0, <<>>)

Serializing(kinds) ==
  /\ pc \in {"to_vec", "to_writer"}
  /\ stack # <<>>
  /\ Top(stack).f = "serialize"
  /\ Top(stack).v.k \in kinds

\* a Vec that takes four bytes and no more
Vec_of_four_bytes == [bounded |-> TRUE, room |-> 4]

\* the writer W: the Vec<u8> of to_vec, which takes every byte, or a byte
\* slice &mut [u8], which takes as many bytes as it is long
Vec == [bounded |-> FALSE, room |-> 0]
Slice(len) == [bounded |-> TRUE, room |-> len]

\* what a Vec handed to to_writer holds before the call
HeldBefore == << 255, 0 >>

\* write_all that writes from the start of the writer
write_all_from_the_start(w, bytes) == bytes

\* Write::write_all: what the writer w has taken after it, when it takes every byte
write_all(w, bytes) == w \o bytes

\* the writer can take every one of bytes
Fits(bytes) == ~sink.bounded \/ Len(bytes) <= sink.room

\* write_all of a slice that is too short: error kind WriteZero
WriteZero == Err("Io", "failed to write whole buffer")

\* Writes that goes on to the next part after a write that failed
Writes_on_after_a_failure(bytes) ==
  /\ writer' = write_all(writer, IF Fits(bytes) THEN bytes ELSE Take(bytes, sink.room))
  /\ sink' = IF ~sink.bounded THEN sink
             ELSE Slice(IF Fits(bytes) THEN sink.room - Len(bytes) ELSE 0)
  /\ stack' = Pop(stack)
  /\ pc' = IF Pop(stack) # <<>> THEN pc
           ELSE IF pc = "to_vec" THEN "to_vec done" ELSE "to_writer done"
  /\ ret' = IF Pop(stack) = <<>> /\ pc = "to_writer" THEN Ok(Val("unit", <<>>, <<>>)) ELSE ret
  /\ UNCHANGED << bo, ty, value, storage, reader >>

\* the method on top of the stack writes bytes and returns Ok(()), or the
\* error of the writer, which every caller up to to_writer returns as it is
Writes(bytes) ==
  IF Fits(bytes)
    THEN /\ writer' = write_all(writer, bytes)
         /\ sink' = IF sink.bounded THEN Slice(sink.room - Len(bytes)) ELSE sink
         /\ stack' = Pop(stack)
         /\ pc' = IF Pop(stack) # <<>> THEN pc
                  ELSE IF pc = "to_vec" THEN "to_vec done" ELSE "to_writer done"
         /\ ret' = IF Pop(stack) = <<>> /\ pc = "to_writer"
                     THEN Ok(Val("unit", <<>>, <<>>)) ELSE ret
         /\ UNCHANGED << bo, ty, value, storage, reader >>
    \* the slice takes the bytes it has room for
    ELSE /\ writer' = write_all(writer, Take(bytes, sink.room))
         /\ sink' = Slice(0)
         /\ stack' = <<>>
         /\ pc' = "to_writer done"
         /\ ret' = WriteZero
         /\ UNCHANGED << bo, ty, value, storage, reader >>

\* the method on top of the stack hands over to value.serialize(self)
Delegates(v) ==
  /\ stack' = Append(Pop(stack), Ser(v))
  /\ UNCHANGED << bo, sink, ty, value, pc, writer, storage, reader, ret >>

\* the method on top of the stack returns Ok(self) as the compound serializer
Begins ==
  /\ stack' = Append(Pop(stack), Frame("compound", Top(stack).ty, Top(stack).v, 0, <<>>))
  /\ UNCHANGED << bo, sink, ty, value, pc, writer, storage, reader, ret >>

\* the Serialize of a compound of one of kinds hands its next part to the serializer
Compound(kinds) ==
  /\ pc \in {"to_vec", "to_writer"}
  /\ stack # <<>>
  /\ Top(stack).f = "compound"
  /\ Top(stack).v.k \in kinds

\* the parts handed over last to first
NextPart_backwards ==
  LET top == Top(stack)
  IN /\ top.count < Len(top.v.sub)
     /\ stack' = Pop(stack) \o << [top EXCEPT !.count = top.count + 1],
                                  Ser(top.v.sub[Len(top.v.sub) - top.count]) >>
     /\ UNCHANGED << bo, sink, ty, value, pc, writer, storage, reader, ret >>

NextPart ==
  LET top == Top(stack)
  IN /\ top.count < Len(top.v.sub)
     /\ stack' = Pop(stack) \o << [top EXCEPT !.count = top.count + 1],
                                  Ser(top.v.sub[top.count + 1]) >>
     /\ UNCHANGED << bo, sink, ty, value, pc, writer, storage, reader, ret >>

to_writer ==
  /\ pc = "call to_writer"
  /\ stack' = << Ser(value) >>
  /\ pc' = "to_writer"
  /\ UNCHANGED << bo, sink, ty, value, writer, storage, reader, ret >>

\* to_writer on a new Vec
to_vec ==
  /\ pc = "call to_vec"
  /\ writer' = <<>>
  /\ stack' = << Ser(value) >>
  /\ pc' = "to_vec"
  /\ UNCHANGED << bo, sink, ty, value, storage, reader, ret >>

serialize_i8 == Serializing({"i8"}) /\ Writes(write_num(bo, "i8", Top(stack).v.n))

serialize_u8 == Serializing({"u8"}) /\ Writes(write_num(bo, "u8", Top(stack).v.n))

\* serialize_i16 .. serialize_u128
serialize_int ==
  /\ Serializing(IntKinds \ {"i8", "u8"})
  /\ Writes(write_num(bo, Top(stack).v.k, Top(stack).v.n))

\* serialize_bool that writes true with every bit set
serialize_bool_all_ones ==
  /\ Serializing({"bool"})
  /\ Writes(write_num(bo, "u8", << IF Top(stack).v.n[1] THEN 255 ELSE 0 >>))

\* hands over to serialize_u8
serialize_bool ==
  /\ Serializing({"bool"})
  /\ Writes(write_num(bo, "u8", << IF Top(stack).v.n[1] THEN 1 ELSE 0 >>))

\* hands over to serialize_str, which hands over to serialize_bytes
serialize_char ==
  /\ Serializing({"char"})
  /\ Writes(encode_utf8(Top(stack).v.n[1]))

serialize_str ==
  /\ Serializing({"string", "str"})
  /\ Writes(as_bytes(Top(stack).v.n))

serialize_bytes ==
  /\ Serializing({"byte_buf"})
  /\ Writes(Top(stack).v.n)

\* serialize_none that writes a byte of 0 for the absent value
serialize_none_as_a_flag == Serializing({"none"}) /\ Writes(<< 0 >>)

serialize_none == Serializing({"none"}) /\ Writes(<<>>)

serialize_some == Serializing({"some"}) /\ Delegates(Top(stack).v.sub[1])

serialize_unit == Serializing({"unit"}) /\ Writes(<<>>)

serialize_unit_struct == Serializing({"unit_struct"}) /\ Writes(<<>>)

\* serialize_unit_variant that writes the variant_index as a u32
serialize_unit_variant_tagged ==
  Serializing({"unit_variant"}) /\ Writes(write_num(bo, "u32", << 0, Top(stack).v.n[1] >>))

serialize_unit_variant == Serializing({"unit_variant"}) /\ Writes(<<>>)

serialize_newtype_struct == Serializing({"newtype"}) /\ Delegates(Top(stack).v.sub[1])

serialize_newtype_variant ==
  Serializing({"newtype_variant"}) /\ Delegates(Top(stack).v.sub[1])

serialize_seq == Serializing({"seq"}) /\ Begins

serialize_tuple == Serializing({"tuple"}) /\ Begins

serialize_tuple_struct == Serializing({"tuple_struct"}) /\ Begins

serialize_tuple_variant == Serializing({"tuple_variant"}) /\ Begins

serialize_map == Serializing({"map"}) /\ Begins

serialize_struct == Serializing({"struct"}) /\ Begins

serialize_struct_variant == Serializing({"struct_variant"}) /\ Begins

\* SerializeSeq and SerializeTuple
serialize_element == Compound({"seq", "tuple"}) /\ NextPart

\* SerializeTupleStruct, SerializeTupleVariant, SerializeStruct, SerializeStructVariant
serialize_field ==
  Compound({"tuple_struct", "tuple_variant", "struct", "struct_variant"}) /\ NextPart

\* SerializeMap: an entry is its key, then its value
serialize_key == Compound({"map"}) /\ Top(stack).count % 2 = 0 /\ NextPart

serialize_value == Compound({"map"}) /\ Top(stack).count % 2 = 1 /\ NextPart

end ==
  /\ Compound(TupleKinds \cup {"seq", "map", "tuple_variant", "struct_variant"})
  /\ Top(stack).count = Len(Top(stack).v.sub)
  /\ Writes(<<>>)

(***************************************************************************)
(* The calls: to_vec of a value and from_bytes of what it wrote, or        *)
(* from_bytes of raw bytes.                                                *)
(***************************************************************************)
InitRoundTrip ==
  /\ ty \in SerShapes
  /\ value \in ValuesOf(ty)
  /\ sink = Vec
  /\ writer = <<>>
  /\ storage = <<>>
  /\ pc = "call to_vec"

\* the writer is a byte slice, or a Vec that holds bytes already
InitWrite ==
  /\ ty \in SerShapes
  /\ value \in ValuesOf(ty)
  /\ \/ sink \in { Slice(len) : len \in 0..MaxRoom } /\ writer = <<>>
     \/ sink = Vec /\ writer = HeldBefore
  /\ storage = <<>>
  /\ pc = "call to_writer"

InitDecode ==
  /\ ty \in DeShapes
  /\ value = NoValue
  /\ sink = Vec
  /\ writer = <<>>
  /\ storage \in RawInputs
  /\ pc = "call from_bytes"

InitChar ==
  /\ ty \in { Char, Sh("tuple", << Char, U8 >>), String, Prim("str"), Prim("byte_buf") }
  /\ value = NoValue
  /\ sink = Vec
  /\ writer = <<>>
  /\ storage \in CharInputs
  /\ pc = "call from_bytes"

Init ==
  /\ bo \in {"BE", "LE"}
  /\ reader = <<>>
  /\ stack = <<>>
  /\ ret = None
  /\ (InitRoundTrip \/ InitWrite \/ InitDecode \/ InitChar)

Next ==
  \/ to_writer
  \/ to_vec
  \/ serialize_i8
  \/ serialize_u8
  \/ serialize_int
  \/ serialize_bool
  \/ serialize_char
  \/ serialize_str
  \/ serialize_bytes
  \/ serialize_none
  \/ serialize_some
  \/ serialize_unit
  \/ serialize_unit_struct
  \/ serialize_unit_variant
  \/ serialize_newtype_struct
  \/ serialize_newtype_variant
  \/ serialize_seq
  \/ serialize_tuple
  \/ serialize_tuple_struct
  \/ serialize_tuple_variant
  \/ serialize_map
  \/ serialize_struct
  \/ serialize_struct_variant
  \/ serialize_element
  \/ serialize_field
  \/ serialize_key
  \/ serialize_value
  \/ end
  \/ from_bytes
  \/ deserialize_i8
  \/ deserialize_u8
  \/ impl_numbers
  \/ deserialize_char
  \/ deserialize_string
  \/ deserialize_byte_buf
  \/ deserialize_unit
  \/ deserialize_unit_struct
  \/ deserialize_newtype_struct
  \/ deserialize_seq
  \/ deserialize_tuple
  \/ unsupported
  \/ deserialize_enum
  \/ Tuple_next_element_seed
  \/ Seq_next_element_seed

Spec == Init /\ [][Next]_vars

(***************************************************************************)
(* What the claims speak of.                                               *)
(***************************************************************************)
Done == pc = "done"
\* to_vec has returned
Encoded == value # NoValue /\ pc \in {"to_vec done", "from_bytes", "done"}
\* from_bytes was called on raw bytes
Raw == value = NoValue

\* shapes of a fixed number of bytes: integers, and tuples, arrays, structs and
\* newtypes of them
RECURSIVE FixedNum(_)
FixedNum(t) ==
  \/ t.k \in IntKinds
  \/ t.k \in TupleKinds \cup {"newtype"} /\ \A i \in 1..Len(t.sub) : FixedNum(t.sub[i])

RECURSIVE Sum(_)
Sum(ns) == IF ns = <<>> THEN 0 ELSE Head(ns) + Sum(Tail(ns))

RECURSIVE WidthOf(_)
WidthOf(t) ==
  IF t.k \in IntKinds THEN Width(t.k)
  ELSE Sum([i \in 1..Len(t.sub) |-> WidthOf(t.sub[i])])

\* the value of the shape t that the bytes b (WidthOf(t) of them) stand for
RECURSIVE Decoded(_, _, _)
Decoded(order, t, b) ==
  IF t.k \in IntKinds THEN Val(t.k, read_num(order, t.k, b), <<>>)
  ELSE LET before(i) == Sum([j \in 1..(i - 1) |-> WidthOf(t.sub[j])])
       IN Val(t.k, <<>>,
              [i \in 1..Len(t.sub) |->
                 Decoded(order, t.sub[i],
                         SubSeq(b, before(i) + 1, before(i) + WidthOf(t.sub[i])))])

\* the bytes that stand for the value v
RECURSIVE Encoding(_, _)
Encoding(order, v) ==
  CASE v.k \in IntKinds ->
         IF order = "BE" THEN BigEndianBytes(v.k, v.n) ELSE Reverse(BigEndianBytes(v.k, v.n))
    [] v.k = "bool" -> << IF v.n[1] THEN 1 ELSE 0 >>
    [] v.k = "char" -> encode_utf8(v.n[1])
    [] v.k \in {"string", "str"} -> as_bytes(v.n)
    [] v.k = "byte_buf" -> v.n
    [] OTHER -> Flatten([i \in 1..Len(v.sub) |-> Encoding(order, v.sub[i])])

\* shapes without a part of variable length
RECURSIVE Fixed(_)
Fixed(t) ==
  \/ t.k \in IntKinds \cup {"char", "unit", "unit_struct"}
  \/ t.k \in TupleKinds \cup {"newtype"} /\ \A i \in 1..Len(t.sub) : Fixed(t.sub[i])

\* fixed shapes every value of which takes at least one byte
RECURSIVE NonEmpty(_)
NonEmpty(t) ==
  \/ t.k \in IntKinds \cup {"char"}
  \/ t.k \in TupleKinds \cup {"newtype"} /\ \E i \in 1..Len(t.sub) : NonEmpty(t.sub[i])

\* shapes with at most one part of variable length, which comes last
RECURSIVE VariableLast(_)
VariableLast(t) ==
  \/ Fixed(t)
  \/ t.k \in {"string", "byte_buf"}
  \/ t.k = "seq" /\ Fixed(t.sub[1]) /\ NonEmpty(t.sub[1])
  \/ /\ t.k \in TupleKinds \cup {"newtype"}
     /\ t.sub # <<>>
     /\ \A i \in 1..(Len(t.sub) - 1) : Fixed(t.sub[i])
     /\ VariableLast(t.sub[Len(t.sub)])

\* the shapes the deserializer supports
RECURSIVE Supported(_)
Supported(t) ==
  \/ t.k \in IntKinds \cup {"char", "string", "byte_buf", "unit", "unit_struct"}
  \/ t.k \in TupleKinds \cup {"newtype", "seq"}
       /\ \A i \in 1..Len(t.sub) : Supported(t.sub[i])

(***************************************************************************)
(* C1.  Round trip, as claimed: for every supported shape T and value v,   *)
(* from_bytes(to_vec(v)) returns Ok(v), under both byte orders.            *)
(***************************************************************************)
C1_RoundTripEverySupportedShape ==
  Done /\ Encoded /\ Supported(ty) => ret = Ok(value)

\* C1, amended: the round trip returns Ok(v) for every shape with at most one
\* part of variable length (a string, a byte buffer, or a sequence of fixed
\* elements of at least one byte each), which comes last.
C1_RoundTripVariableLast ==
  Done /\ Encoded /\ VariableLast(ty) => ret = Ok(value)

C1_Witness ==
  /\ Done
  /\ Encoded
  /\ bo = "LE"
  /\ ty = Sh("tuple", << U16, Sh("seq", << U16 >>) >>)
  /\ Len(value.sub[2].sub) = 2
  /\ ret = Ok(value)

(***************************************************************************)
(* C2.  A character whose first byte has width 0 in the table is decoded   *)
(* as one byte and from_bytes returns Error::Encoding.                     *)
(***************************************************************************)
C2_WidthZeroIsEncodingError ==
  Done /\ ty = Char /\ storage # <<>> /\ UTF8_CHAR_WIDTH(storage[1]) = 0
    => ret.st = "err" /\ ret.err = "Encoding"

(***************************************************************************)
(* C3.  A call of a deserialize method of an unsupported shape (bool,      *)
(* Option, enum, map, any, identifier, ignored-any), wherever it sits in   *)
(* the shape asked for, ends from_bytes with Error::Unsupported naming the *)
(* method and leaves the reader where it was.                              *)
(***************************************************************************)
C3_Method(k) ==
  CASE k = "bool" -> "deserialize_bool is not supported"
    [] k = "option" -> "deserialize_option is not supported"
    [] k = "map" -> "deserialize_map is not supported"
    [] k = "any" -> "deserialize_any is not supported"
    [] k = "identifier" -> "deserialize_identifier is not supported"
    [] k = "ignored_any" -> "deserialize_ignored_any is not supported"
    [] OTHER -> "deserialize_enum is not supported"

C3_UnsupportedReadsNothing ==
  [][ Deserializing(UnsupportedKinds \cup VariantKinds \cup {"enum"})
        => /\ reader' = reader
           /\ pc' = "done"
           /\ ret' = Err("Unsupported", C3_Method(Top(stack).ty.k)) ]_vars

C3_Witness ==
  /\ Done
  /\ Raw
  /\ ty = Sh("tuple", << U8, Prim("bool"), U8 >>)
  /\ Len(storage) = 3
  /\ Len(reader) = 2
  /\ ret.err = "Unsupported"

(***************************************************************************)
(* C4.  A sequence of elements of W bytes each, decoded from N * W bytes,  *)
(* has N elements, element i being what bytes (i-1)*W+1 .. i*W stand for   *)
(* under the byte order; from no bytes it is empty.                        *)
(***************************************************************************)
C4_SeqOfWholeElements ==
  Done /\ ty.k = "seq" /\ FixedNum(ty.sub[1]) /\ Len(storage) % WidthOf(ty.sub[1]) = 0
    => LET w == WidthOf(ty.sub[1])
       IN /\ ret.st = "ok"
          /\ ret.val.k = "seq"
          /\ Len(ret.val.sub) = Len(storage) \div w
          /\ \A i \in 1..Len(ret.val.sub) :
               ret.val.sub[i]
                 = Decoded(bo, ty.sub[1], SubSeq(storage, (i - 1) * w + 1, i * w))
          /\ reader = <<>>

C4_Witness ==
  /\ Done
  /\ Raw
  /\ bo = "LE"
  /\ ty = Sh("seq", << U16 >>)
  /\ storage = << 18, 171, 171, 171 >>
  /\ ret = Ok(Val("seq", <<>>, << Val("u16", << 43794 >>, <<>>),
                                   Val("u16", << 43947 >>, <<>>) >>))

(***************************************************************************)
(* C5.  A tuple, array or struct of N fields of fixed width, decoded from  *)
(* at least as many bytes as the fields take, has its N fields in order    *)
(* from consecutive bytes, and the bytes after them stay in the reader.    *)
(***************************************************************************)
C5_TupleLeavesTrailingBytes ==
  Done /\ ty.k \in TupleKinds /\ FixedNum(ty) /\ Len(storage) >= WidthOf(ty)
    => /\ ret = Ok(Decoded(bo, ty, Take(storage, WidthOf(ty))))
       /\ Len(ret.val.sub) = Len(ty.sub)
       /\ reader = Drop(storage, WidthOf(ty))

C5_Witness ==
  /\ Done
  /\ Raw
  /\ bo = "BE"
  /\ ty = Sh("struct", << U16, U8 >>)
  /\ storage = << 18, 171, 171, 18, 171 >>
  /\ ret = Ok(Val("struct", <<>>, << Val("u16", << 4779 >>, <<>>),
                                      Val("u8", << 171 >>, <<>>) >>))
  /\ reader = << 18, 171 >>

(***************************************************************************)
(* C6.  A number, or a tuple, array or struct of numbers, decoded from     *)
(* fewer bytes than it takes, fails with Error::Io and yields no value.    *)
(***************************************************************************)
C6_TooFewBytesIsIo ==
  Done /\ FixedNum(ty) /\ Len(storage) < WidthOf(ty)
    => ret.st = "err" /\ ret.err = "Io" /\ ret.val = NoValue

C6_Witness ==
  /\ Done
  /\ Raw
  /\ ty = Sh("tuple", << U16, U16 >>)
  /\ Len(storage) = 3
  /\ ret.err = "Io"

(***************************************************************************)
(* C7.  A sequence of elements of W bytes each, decoded from a number of   *)
(* bytes that is no multiple of W, fails with Error::Io.                   *)
(***************************************************************************)
C7_SeqWithPartialElementIsIo ==
  Done /\ ty.k = "seq" /\ FixedNum(ty.sub[1]) /\ Len(storage) % WidthOf(ty.sub[1]) # 0
    => ret.st = "err" /\ ret.err = "Io"

C7_Witness ==
  /\ Done
  /\ Raw
  /\ ty = Sh("seq", << U16 >>)
  /\ Len(storage) = 5
  /\ ret.err = "Io"

(***************************************************************************)
(* C8.  A character decoded from bytes that start with the well-formed     *)
(* UTF-8 sequence of a scalar is that scalar; the bytes consumed are those *)
(* of the sequence, as many as the table gives for the first byte, and the *)
(* bytes after them stay in the reader.                                    *)
(***************************************************************************)
C8_WellFormedCharIsDecoded ==
  Done /\ ty = Char /\ Utf8SeqLen(storage) > 0
    => LET w == Utf8SeqLen(storage)
       IN /\ ret = Ok(Val("char", << Scalar(storage, w) >>, <<>>))
          /\ encode_utf8(ret.val.n[1]) = Take(storage, w)
          /\ w = UTF8_CHAR_WIDTH(storage[1])
          /\ reader = Drop(storage, w)

C8_Witness ==
  /\ Done
  /\ Raw
  /\ ty = Char
  /\ storage = << 240, 144, 130, 130, 65 >>
  /\ ret.st = "ok"
  /\ ret.val.n = << 65666 >>
  /\ reader = << 65 >>

(***************************************************************************)
(* C9.  A character whose first byte starts a sequence of 2, 3 or 4 bytes, *)
(* decoded from at least as many bytes that are no well-formed UTF-8       *)
(* sequence, fails with Error::Encoding.                                   *)
(***************************************************************************)
C9_MalformedCharIsEncodingError ==
  Done /\ ty = Char /\ storage # <<>>
    => LET w == UTF8_CHAR_WIDTH(storage[1])
       IN w >= 2 /\ Len(storage) >= w /\ Utf8SeqLen(Take(storage, w)) # w
            => ret.st = "err" /\ ret.err = "Encoding"

\* a surrogate, ED A0 82
C9_Witness ==
  /\ Done
  /\ Raw
  /\ ty = Char
  /\ storage = << 237, 160, 130 >>
  /\ ret.err = "Encoding"

(***************************************************************************)
(* C10.  What to_vec writes for a sequence, tuple, array, struct, map or   *)
(* tuple or struct variant is what stands for its first part, then what    *)
(* stands for its second part, and so on (for a map: key, value, key, ...),*)
(* under the same byte order; a sequence of N integers of W bytes takes    *)
(* N * W bytes.                                                            *)
(***************************************************************************)
C10_Compounds == TupleKinds \cup {"seq", "map", "tuple_variant", "struct_variant"}

C10_CompoundIsConcatenation ==
  Encoded /\ value.k \in C10_Compounds
    => /\ writer = Flatten([i \in 1..Len(value.sub) |-> Encoding(bo, value.sub[i])])
       /\ value.k = "seq" /\ ty.sub[1].k \in IntKinds
            => Len(writer) = Len(value.sub) * Width(ty.sub[1].k)

C10_Witness ==
  /\ Encoded
  /\ bo = "LE"
  /\ value.k = "struct"
  /\ ty = Sh("struct", << U32, U16 >>)
  /\ value.sub = << Val("u32", << 4660, 22136 >>, <<>>), Val("u16", << 43981 >>, <<>>) >>
  /\ writer = << 120, 86, 52, 18, 205, 171 >>

(***************************************************************************)
(* C11.  A call of serialize_i8 .. serialize_u128 that returns Ok appends  *)
(* to the writer exactly W/8 bytes, and a call of deserialize_i8 ..        *)
(* deserialize_u128 that returns Ok takes exactly the first W/8 bytes off  *)
(* the reader, W being the width in bits of the integer: whatever the      *)
(* value, the byte order and the place of the integer in the shape.        *)
(***************************************************************************)
C11_Bits(k) ==
  CASE k \in {"i8", "u8"} -> 8
    [] k \in {"i16", "u16"} -> 16
    [] k \in {"i32", "u32"} -> 32
    [] k \in {"i64", "u64"} -> 64
    [] k \in {"i128", "u128"} -> 128

C11_FixedWidth ==
  [][ /\ Serializing(IntKinds) /\ ret'.st # "err"
        => /\ Len(writer') = Len(writer) + (C11_Bits(Top(stack).v.k) \div 8)
           /\ Take(writer', Len(writer)) = writer
      /\ Deserializing(IntKinds) /\ ret'.st # "err"
        => /\ Len(reader) >= C11_Bits(Top(stack).ty.k) \div 8
           /\ reader' = Drop(reader, C11_Bits(Top(stack).ty.k) \div 8) ]_vars

C11_Witness ==
  /\ Done
  /\ Encoded
  /\ bo = "LE"
  /\ ty = Prim("i128")
  /\ value.n[1] = -2
  /\ Len(writer) = 16
  /\ reader = <<>>
  /\ ret = Ok(value)

(***************************************************************************)
(* C12.  What a call of serialize_i16 .. serialize_u128 that returns Ok    *)
(* appends under BE is the base 256 digits of the integer, most            *)
(* significant first, of its two's complement if it is signed; under LE    *)
(* the same bytes in reverse order.  serialize_i8 and serialize_u8 append  *)
(* the same single byte under both byte orders.                            *)
(***************************************************************************)
\* digit j, counted from the most significant, of the W/8 base 256 digits of
\* the integer n modulo 2^W
C12_Digit(k, n, j) ==
  IF C11_Bits(k) = 8 THEN n[1] % 256
  ELSE LET limb == n[(j + 1) \div 2] % 65536
       IN IF j % 2 = 1 THEN limb \div 256 ELSE limb % 256

C12_Digits(k, n) == [j \in 1..(C11_Bits(k) \div 8) |-> C12_Digit(k, n, j)]

C12_DigitsInByteOrder ==
  [][ Serializing(IntKinds) /\ ret'.st # "err"
        => LET v == Top(stack).v
           IN /\ bo = "BE" => writer' = writer \o C12_Digits(v.k, v.n)
              /\ bo = "LE" => writer' = writer \o Reverse(C12_Digits(v.k, v.n))
              /\ C11_Bits(v.k) = 8 => writer' = Append(writer, v.n[1] % 256) ]_vars

C12_Witness ==
  /\ Encoded
  /\ bo = "BE"
  /\ value = Val("i32", << -2, 239 >>, <<>>)
  /\ writer = << 255, 254, 0, 239 >>

(***************************************************************************)
(* C13.  from_bytes of an integer of W bits from at least W/8 bytes, b     *)
(* being the first W/8 of them, returns under BE the integer whose base    *)
(* 256 digits, most significant first, are b, less 2^W if it is signed and *)
(* the top bit of b[0] is set; under LE what it returns under BE from b    *)
(* reversed.  For i8 and u8 it returns the same under both byte orders.    *)
(***************************************************************************)
\* the integer of kind k whose digits, most significant first, are b
C13_BigEndian(k, b) ==
  IF C11_Bits(k) = 8
    THEN << IF k \in SignedKinds /\ b[1] >= 128 THEN b[1] - 256 ELSE b[1] >>
    ELSE [i \in 1..(C11_Bits(k) \div 16) |->
            LET digits == (b[(2 * i) - 1] * 256) + b[2 * i]
            IN IF i = 1 /\ k \in SignedKinds /\ b[1] >= 128
                 THEN digits - 65536 ELSE digits]

C13_ValueOfBytes ==
  Done /\ ty.k \in IntKinds /\ Len(storage) >= C11_Bits(ty.k) \div 8
    => LET b == Take(storage, C11_Bits(ty.k) \div 8)
       IN /\ bo = "BE" => ret = Ok(Val(ty.k, C13_BigEndian(ty.k, b), <<>>))
          /\ bo = "LE" => ret = Ok(Val(ty.k, C13_BigEndian(ty.k, Reverse(b)), <<>>))
          /\ C11_Bits(ty.k) = 8 => ret = Ok(Val(ty.k, C13_BigEndian(ty.k, b), <<>>))

\* 12 AB 12 AB under LE is 0xAB12AB12, which is negative as an i32
C13_Witness ==
  /\ Done
  /\ Raw
  /\ bo = "LE"
  /\ ty = Prim("i32")
  /\ storage = << 18, 171, 18, 171 >>
  /\ ret = Ok(Val("i32", << -21742, 43794 >>, <<>>))

(***************************************************************************)
(* C14.  What to_vec writes for a variant of an enum is its payload alone, *)
(* whatever its variant_index: nothing for a unit variant, what stands for *)
(* the inner value for a newtype variant, what stands for the fields one   *)
(* after the other for a tuple or struct variant.  So two variants of one  *)
(* payload are written as the same bytes.                                  *)
(***************************************************************************)
C14_Payload(v) == Flatten([i \in 1..Len(v.sub) |-> Encoding(bo, v.sub[i])])

C14_VariantIsItsPayload ==
  Encoded /\ value.k \in VariantKinds
    => /\ value.k = "unit_variant" => writer = <<>>
       /\ value.k = "newtype_variant" => writer = Encoding(bo, value.sub[1])
       /\ value.k \in {"tuple_variant", "struct_variant"} => writer = C14_Payload(value)
       /\ \A other \in ValuesOf(ty) :
            other.sub = value.sub => writer = C14_Payload(other)

\* the second variant, wrapping 0x12345678
C14_Witness ==
  /\ Encoded
  /\ bo = "BE"
  /\ value = Val("newtype_variant", << 1 >>, << Val("u32", << 4660, 22136 >>, <<>>) >>)
  /\ writer = << 18, 52, 86, 120 >>

(***************************************************************************)
(* C15.  to_vec writes nothing for (), for a unit struct and for None; for *)
(* Some(x) and for a newtype struct of x it writes what stands for x and   *)
(* nothing else, under both byte orders.  So Some(x) is written as x is    *)
(* and None as () is.                                                      *)
(***************************************************************************)
C15_WrappersWriteNothing ==
  Encoded
    => /\ value.k \in {"unit", "unit_struct", "none"} => writer = <<>>
       /\ value.k \in {"some", "newtype"} => writer = Encoding(bo, value.sub[1])
       /\ value.k \in {"some", "newtype"} /\ value.sub[1].k = "newtype"
            => writer = Encoding(bo, value.sub[1].sub[1])

C15_Witness ==
  /\ Encoded
  /\ bo = "LE"
  /\ value = Val("some", <<>>, << Val("u16", << 4660 >>, <<>>) >>)
  /\ writer = << 52, 18 >>

(***************************************************************************)
(* C16.  A call of serialize_bool that returns Ok appends exactly one byte, *)
(* 0x01 for true and 0x00 for false, under both byte orders.               *)
(***************************************************************************)
C16_BoolIsOneByte ==
  [][ Serializing({"bool"}) /\ ret'.st # "err"
        => /\ Top(stack).v.n[1] = TRUE => writer' = Append(writer, 1)
           /\ Top(stack).v.n[1] = FALSE => writer' = Append(writer, 0) ]_vars

C16_Witness ==
  /\ Encoded
  /\ bo = "LE"
  /\ value = Val("tuple", <<>>, << Val("bool", << TRUE >>, <<>>),
                                   Val("u16", << 4660 >>, <<>>) >>)
  /\ writer = << 1, 52, 18 >>

(***************************************************************************)
(* C17.  deserialize_string takes every byte left in the reader; from_bytes*)
(* of a String returns the string these bytes stand for if they are        *)
(* well-formed UTF-8 and Error::Encoding if not.  deserialize_byte_buf     *)
(* takes every byte left as well, and from_bytes of a byte buffer returns  *)
(* them as they are, whatever they are.  Neither looks at the byte order.  *)
(***************************************************************************)
\* b is well-formed UTF-8 sequences one after the other
RECURSIVE C17_WellFormed(_)
C17_WellFormed(b) ==
  \/ b = <<>>
  \/ Utf8SeqLen(b) > 0 /\ C17_WellFormed(Drop(b, Utf8SeqLen(b)))

C17_StringIsWhatIsLeft ==
  /\ [](Done /\ ty = String
          => /\ reader = <<>>
             /\ IF C17_WellFormed(storage)
                  THEN /\ ret.st = "ok"
                       /\ ret.val.k = "string"
                       /\ as_bytes(ret.val.n) = storage
                  ELSE ret.st = "err" /\ ret.err = "Encoding")
  /\ [](Done /\ ty = Prim("byte_buf")
          => reader = <<>> /\ ret = Ok(Val("byte_buf", storage, <<>>)))
  /\ [][ Deserializing({"string", "byte_buf"}) => reader' = <<>> ]_vars

\* D1 80 41 is U+0440, 'A'
C17_Witness ==
  /\ Done
  /\ Raw
  /\ bo = "LE"
  /\ ty = String
  /\ storage = << 209, 128, 65 >>
  /\ ret = Ok(Val("string", << 1088, 65 >>, <<>>))
  /\ reader = <<>>

(***************************************************************************)
(* C18.  In a tuple or struct where a string or byte buffer is followed by *)
(* a field that needs at least one byte, the string takes every byte, none *)
(* is left for the later field, and, as claimed, the later field fails     *)
(* with Error::Io for every input.                                         *)
(***************************************************************************)
\* a tuple or struct of numbers, then a string or byte buffer, then a field that
\* needs at least one byte
C18_StringAt(t, i) ==
  /\ t.sub[i].k \in {"string", "byte_buf"}
  /\ \A j \in 1..(i - 1) : FixedNum(t.sub[j])
  /\ NonEmpty(t.sub[i + 1])

C18_StringThenField(t) ==
  t.k \in TupleKinds /\ \E i \in 1..(Len(t.sub) - 1) : C18_StringAt(t, i)

C18_Index(t) == CHOOSE i \in 1..(Len(t.sub) - 1) : C18_StringAt(t, i)

\* the bytes of the numbers before the string
C18_Before(t) == Sum([j \in 1..(C18_Index(t) - 1) |-> WidthOf(t.sub[j])])

C18_LaterFieldAlwaysFailsWithIo ==
  Done /\ C18_StringThenField(ty) /\ Len(storage) >= C18_Before(ty)
    => ret.st = "err" /\ ret.err = "Io"

\* the deserialize method on top of the stack is called for a field of a tuple
\* or struct that comes after a string or byte buffer
C18_AfterString ==
  /\ pc = "from_bytes"
  /\ Len(stack) >= 2
  /\ Top(stack).f = "deserialize"
  /\ Top(Pop(stack)).f = "Tuple"
  /\ \E i \in 1..Len(Top(Pop(stack)).acc) :
       Top(Pop(stack)).acc[i].k \in {"string", "byte_buf"}

\* C18, amended: the string or byte buffer takes every byte, so the call never
\* succeeds: it fails with Error::Encoding at the string when the bytes left
\* for it are not well-formed UTF-8, and otherwise at the later field, which
\* finds the reader empty and fails with Error::Io.
C18_StringTakesWhatIsLeft ==
  /\ [](Done /\ C18_StringThenField(ty) /\ Len(storage) >= C18_Before(ty)
          => LET left == Drop(storage, C18_Before(ty))
                 malformed == /\ ty.sub[C18_Index(ty)].k = "string"
                              /\ ~C17_WellFormed(left)
             IN /\ reader = <<>>
                /\ ret.st = "err"
                /\ ret.err = IF malformed THEN "Encoding" ELSE "Io")
  /\ [][ C18_AfterString /\ Deserializing(IntKinds \cup {"char"})
           => reader = <<>> /\ pc' = "done" /\ ret' = IoError ]_vars

C18_Witness ==
  /\ Done
  /\ Raw
  /\ ty = Sh("tuple", << U8, String, Char >>)
  /\ storage = << 171, 18, 18 >>
  /\ reader = <<>>
  /\ ret = IoError

(***************************************************************************)
(* C19.  from_bytes of a &str fails for every input, under both byte       *)
(* orders: deserialize_str hands the visitor an owned string, which the    *)
(* visitor of &str does not take.                                          *)
(***************************************************************************)
C19_BorrowedStrAlwaysFails ==
  Done /\ ty = Prim("str")
    => /\ ret.st = "err"
       /\ ret.val = NoValue
       /\ C17_WellFormed(storage) => ret.err = "Unknown"

\* what to_vec wrote for "\u{442}A"
C19_Witness ==
  /\ Done
  /\ Encoded
  /\ bo = "BE"
  /\ value = Val("str", << 1090, 65 >>, <<>>)
  /\ storage = << 209, 130, 65 >>
  /\ ret = Err("Unknown", "invalid type: string, expected a borrowed string")

(***************************************************************************)
(* C20.  The first error ends the whole call.  A read of a number or of a  *)
(* char from too few bytes, a write that the writer does not take, bytes   *)
(* of a string that are not UTF-8 and a call of an unsupported method each *)
(* make to_writer or from_bytes return that very error (Error::Io for the  *)
(* writer's), from wherever in the value or shape they happen; nothing is  *)
(* read or written after it, so what to_writer has written is the start    *)
(* of what stands for the value, and no call goes on after an error.       *)
(***************************************************************************)
C20_Primitives == IntKinds \cup {"bool", "char", "string", "str", "byte_buf"}

\* the write of the primitive on top of the stack is more than the writer takes
C20_WriteFails ==
  /\ Serializing(C20_Primitives)
  /\ sink.bounded
  /\ Len(Encoding(bo, Top(stack).v)) > sink.room

C20_FirstErrorEndsTheCall ==
  /\ [][ ret.st # "err" ]_vars
  /\ [][ /\ ret'.st = "err" => stack' = <<>> /\ pc' \in {"done", "to_writer done"}
         /\ C20_WriteFails
              => ret'.st = "err" /\ ret'.err = "Io" /\ Len(writer') = Len(writer) + sink.room
         /\ Deserializing(IntKinds) /\ Len(reader) < C11_Bits(Top(stack).ty.k) \div 8
              => ret' = IoError
         /\ Deserializing({"char"}) /\ reader = <<>> => ret' = IoError
         /\ Deserializing({"string", "str"}) /\ ~C17_WellFormed(reader)
              => ret'.st = "err" /\ ret'.err = "Encoding"
         /\ Deserializing(UnsupportedKinds \cup VariantKinds \cup {"enum"})
              => ret'.st = "err" /\ ret'.err = "Unsupported" ]_vars
  /\ [](pc = "to_writer done" /\ sink.bounded
          => LET all == Encoding(bo, value)
                 len == Len(writer) + sink.room
             IN IF Len(all) <= len
                  THEN ret.st = "ok" /\ writer = all
                  ELSE ret = WriteZero /\ writer = Take(all, len))

\* the second of three u16 does not fit into a slice of three bytes
C20_Witness ==
  /\ pc = "to_writer done"
  /\ bo = "BE"
  /\ ty = Sh("tuple", << U16, U16, U16 >>)
  /\ value.sub[1].n = << 4660 >>
  /\ value.sub[2].n = << 43981 >>
  /\ writer = << 18, 52, 171 >>
  /\ sink = Slice(0)
  /\ stack = <<>>
  /\ ret = WriteZero

(***************************************************************************)
(* C21.  After a call that failed the reader or writer is, as claimed,     *)
(* where the last read or write that succeeded left it: from_bytes of a    *)
(* number, a char or a String that fails has taken no byte off the reader, *)
(* and what to_writer has written when it fails is what the writes that    *)
(* succeeded wrote.                                                        *)
(***************************************************************************)
\* what each write of the traversal of v hands to the writer, in order
RECURSIVE C21_Writes(_)
C21_Writes(v) ==
  IF v.k \in C20_Primitives THEN << Encoding(bo, v) >>
  ELSE Flatten([i \in 1..Len(v.sub) |-> C21_Writes(v.sub[i])])

\* what a writer of room bytes holds after the first of the writes ws that does
\* not fit, when it takes nothing of that write (whole = TRUE) or what fits of it
RECURSIVE C21_Written(_, _, _)
C21_Written(ws, room, whole) ==
  IF ws = <<>> THEN <<>>
  ELSE IF Len(Head(ws)) <= room
    THEN Head(ws) \o C21_Written(Tail(ws), room - Len(Head(ws)), whole)
  ELSE IF whole THEN <<>>
  ELSE Take(Head(ws), room)

C21_FailureLeavesNothingBehind ==
  /\ Done /\ Raw /\ ret.st = "err" /\ ty.k \in IntKinds \cup {"char", "string"}
       => reader = storage
  /\ pc = "to_writer done" /\ ret.st = "err"
       => writer = C21_Written(C21_Writes(value), Len(writer) + sink.room, TRUE)

\* C21, amended: a read or write that fails may have taken bytes before it
\* failed.  A char that is malformed has taken its first byte and the bytes
\* after it that the first byte calls for; a char that is cut short has taken
\* its first byte, or every byte left; a String that is not UTF-8 has taken
\* every byte left; a number that is cut short has taken nothing, or every byte
\* left.  What to_writer into a byte slice has written when it fails is what
\* the writes that succeeded wrote and then the bytes of the failing write that
\* the slice had room for.
C21_FailureKeepsWhatItTook ==
  /\ [][ /\ Deserializing(IntKinds) /\ ret'.st = "err" => reader' \in { reader, <<>> }
         /\ Deserializing({"char"}) /\ ret'.st = "err" /\ ret'.err = "Encoding"
              => /\ Len(reader) >= UTF8_CHAR_WIDTH(reader[1])
                 /\ reader' = Drop(reader, UTF8_CHAR_WIDTH(reader[1]))
         /\ Deserializing({"char"}) /\ ret'.st = "err" /\ ret'.err = "Io"
              => IF reader = <<>> THEN reader' = <<>>
                 ELSE reader' \in { Drop(reader, 1), <<>> }
         /\ Deserializing({"string", "str"}) /\ ret'.st = "err" => reader' = <<>> ]_vars
  /\ [](pc = "to_writer done" /\ ret.st = "err"
          => /\ sink.room = 0
             /\ writer = C21_Written(C21_Writes(value), Len(writer), FALSE))

\* ED A0 82 is a surrogate: its three bytes are gone, the 'A' is left
C21_Witness ==
  /\ Done
  /\ Raw
  /\ ty = Char
  /\ storage = << 237, 160, 130, 65 >>
  /\ ret.st = "err"
  /\ ret.err = "Encoding"
  /\ reader = << 65 >>

(***************************************************************************)
(* C22.  from_bytes of (), of a unit struct and of an array or tuple of no *)
(* fields returns Ok whatever the bytes are, also when there are none, and *)
(* leaves the reader where it was; so does every call of deserialize_unit, *)
(* deserialize_unit_struct and deserialize_tuple of no fields inside a     *)
(* shape.                                                                  *)
(***************************************************************************)
C22_Empty(t) == t.k \in {"unit", "unit_struct"} \/ (t.k \in TupleKinds /\ t.sub = <<>>)

C22_UnitReadsNothing ==
  /\ [](Done /\ Raw /\ C22_Empty(ty)
          => ret = Ok(Val(ty.k, <<>>, <<>>)) /\ reader = storage)
  /\ [][ Deserializing({"unit", "unit_struct"} \cup TupleKinds) /\ C22_Empty(Top(stack).ty)
           => reader' = reader /\ ret'.st \notin {"err", "panic"} ]_vars

C22_Witness ==
  /\ Done
  /\ Raw
  /\ ty = Unit
  /\ storage = << 171, 18 >>
  /\ reader = << 171, 18 >>
  /\ ret = Ok(Val("unit", <<>>, <<>>))

(***************************************************************************)
(* C23.  from_bytes of a sequence ends, whatever the shape of the          *)
(* elements: every turn of the loop of the visitor takes at least one byte *)
(* off the reader or ends the loop, so a sequence never holds more         *)
(* elements than bytes were taken since from_bytes was called.             *)
(***************************************************************************)
C23_EveryElementTakesAByte ==
  \A i \in 1..Len(stack) :
    stack[i].f = "Seq" => Len(stack[i].acc) <= Len(storage) - Len(reader)

(***************************************************************************)
(* C24.  The count of a Tuple is its own and stays within 0..N.            *)
(* deserialize_tuple(N, ..) starts it at N; a request for an element takes *)
(* one off it while it is positive, before the element is read and         *)
(* whatever comes of reading it; at zero a request returns None and reads  *)
(* nothing.  No step changes the count of a Tuple other than a request to  *)
(* that Tuple, so a Tuple inside another has its own count, and when       *)
(* from_bytes has returned no Tuple is left.                               *)
(***************************************************************************)
\* the Tuple of frame i of the stack has asked for an element that is being read
C24_Asked(i) == IF i < Len(stack) THEN 1 ELSE 0

C24_CountIsLocalAndBounded ==
  /\ [](\A i \in 1..Len(stack) :
          stack[i].f = "Tuple"
            => /\ stack[i].count \in 0..Len(stack[i].ty.sub)
               /\ stack[i].count
                    = Len(stack[i].ty.sub) - Len(stack[i].acc) - C24_Asked(i))
  /\ [](pc = "done" => stack = <<>>)
  /\ [][ /\ Deserializing(TupleKinds \cup {"collect"}) /\ Top(stack).ty.sub # <<>>
              => /\ Len(stack') = Len(stack)
                 /\ Top(stack').f = "Tuple"
                 /\ Top(stack').count = Len(Top(stack).ty.sub)
                 /\ reader' = reader
         /\ stack # <<>> /\ Top(stack).f = "Tuple" /\ Top(stack).count > 0
              => /\ Len(stack') = Len(stack) + 1
                 /\ stack'[Len(stack)].count = Top(stack).count - 1
                 /\ reader' = reader
         /\ stack # <<>> /\ Top(stack).f = "Tuple" /\ Top(stack).count = 0
              => /\ reader' = reader
                 /\ Len(stack') < Len(stack)
                 /\ ret'.st # "err"
         /\ \A i \in 1..Len(stack) :
              i <= Len(stack') /\ stack[i].f = "Tuple" /\ stack'[i].f = "Tuple"
                => \/ stack'[i].count = stack[i].count
                   \/ i = Len(stack) /\ stack'[i].count = stack[i].count - 1 ]_vars

\* the visitor asked a Tuple of two for a third element: None, and 0x12 is left
C24_Witness ==
  /\ Done
  /\ Raw
  /\ ty = Sh("collect", << U8, U8 >>)
  /\ storage = << 18, 171, 18 >>
  /\ ret = Ok(Val("collect", <<>>, << Val("u8", << 18 >>, <<>>), Val("u8", << 171 >>, <<>>) >>))
  /\ reader = << 18 >>
  /\ stack = <<>>

(***************************************************************************)
(* C25.  The serializer only appends to the writer: in every step what the *)
(* writer held before the step, the bytes it held before to_writer was     *)
(* called included, is the start of what it holds after the step, and it   *)
(* never holds fewer bytes than before.                                    *)
(***************************************************************************)
C25_WriterOnlyGrows ==
  /\ [][ Len(writer') >= Len(writer) /\ Take(writer', Len(writer)) = writer ]_vars
  /\ [](pc \in {"to_writer", "to_writer done"} /\ ~sink.bounded
          => /\ Len(writer) >= Len(HeldBefore)
             /\ Take(writer, Len(HeldBefore)) = HeldBefore)

C25_Witness ==
  /\ pc = "to_writer done"
  /\ bo = "BE"
  /\ sink = Vec
  /\ value = Val("tuple", <<>>, << Val("char", << 1090 >>, <<>>), Val("u8", << 18 >>, <<>>) >>)
  /\ writer = << 255, 0, 209, 130, 18 >>
  /\ ret.st = "ok"

(***************************************************************************)
(* C26.  For every value v of a shape built from integers, chars, unit,    *)
(* newtypes and tuples, arrays and structs, with at most one part of       *)
(* variable length (a string, a byte buffer, or a sequence of fixed        *)
(* elements of at least one byte each), which comes last, from_bytes of    *)
(* what to_vec wrote for v returns Ok(v) under both byte orders, and takes *)
(* every byte that to_vec wrote and no other.                              *)
(***************************************************************************)
C26_RestrictedRoundTrip ==
  Done /\ Encoded /\ VariableLast(ty)
    => /\ storage = writer
       /\ writer = Encoding(bo, value)
       /\ ret = Ok(value)
       /\ reader = <<>>

C26_Witness ==
  /\ Done
  /\ Encoded
  /\ bo = "BE"
  /\ ty = Sh("tuple", << U8, String >>)
  /\ value.sub[2].n = << 1090, 65 >>
  /\ storage = << 18, 209, 130, 65 >>
  /\ ret = Ok(value)
  /\ reader = <<>>

(***************************************************************************)
(* C27.  from_bytes of a sequence that returns Ok leaves the reader empty. *)
(* So from_bytes of a sequence of sequences or of strings that returns Ok  *)
(* returns one element, which holds every byte, when there are bytes, and  *)
(* no element when there are none, however many sequences or strings were  *)
(* written; for a sequence of sequences of bytes it returns Ok always.     *)
(***************************************************************************)
C27_Outer(t) == t.k = "seq" /\ t.sub[1].k \in {"seq", "string"}

C27_SeqTakesEveryByte ==
  /\ Done /\ ty.k = "seq" /\ ret.st = "ok"
       => reader = <<>> /\ ret.val.k = "seq"
  /\ Done /\ C27_Outer(ty) /\ ret.st = "ok"
       => /\ Len(ret.val.sub) = IF storage = <<>> THEN 0 ELSE 1
          /\ storage # <<>> => Encoding(bo, ret.val.sub[1]) = storage
  /\ Done /\ ty = Sh("seq", << Sh("seq", << U8 >>) >>) => ret.st = "ok"

\* [[0x12], [0xAB]] comes back as [[0x12, 0xAB]]
C27_Witness ==
  /\ Done
  /\ Encoded
  /\ ty = Sh("seq", << Sh("seq", << U8 >>) >>)
  /\ Len(value.sub) = 2
  /\ storage = << 18, 171 >>
  /\ ret.st = "ok"
  /\ Len(ret.val.sub) = 1
  /\ Len(ret.val.sub[1].sub) = 2
  /\ reader = <<>>

====
